---- MODULE Spec2Model ----
(***************************************************************************)
(* The active-learning loop driver of notebooks/compatibility/             *)
(* pytorch_lightning.ipynb: the hyperparameter record, the initial random  *)
(* labelling, the construction of the trainer and the fixed for-loop that  *)
(* calls fit, test and step.  The dataset wrapper, the heuristic and the   *)
(* trainer are library code the notebook imports; their behaviour is taken *)
(* from the contracts of spec.md sections 3, 4.1 and 7.                    *)
(***************************************************************************)
EXTENDS Integers, Sequences, FiniteSets, TLC

VARIABLES
    hparams,          \* the configuration: n_items, n_initial, query_size, al_steps
    pc,               \* position of the driver in the notebook
    al_step,          \* the loop variable of `for al_step in range(AL_STEPS)`, -1 before the loop
    labelled,         \* the labelled side of the partition: a set of items
    pool,             \* the unlabelled side: the items in dataset order
    ndata_to_label,   \* the trainer's query size, 0 until the trainer exists
    ranking,          \* the ranking the heuristic returned in the last step (pool positions)
    should_continue,  \* what the last trainer.step returned
    nFit,             \* number of trainer.fit calls made
    nTest,            \* number of trainer.test calls made
    nStep,            \* number of trainer.step calls made
    failure           \* the operation that raised, "none" while nothing has

vars == <<hparams, pc, al_step, labelled, pool, ndata_to_label, ranking,
          should_continue, nFit, nTest, nStep, failure>>

----------------------------------------------------------------------------
(* Bounds of the enumerated configurations. *)

\* Largest dataset whose random labellings and rankings are enumerated in full.
MaxItems == 4
\* Largest step budget of the enumerated configurations.
MaxSteps == 3
\* Largest query size of the enumerated configurations.
MaxQuery == 3

(* The notebook's own numbers, and the dataset size of the end-to-end scenario. *)
AL_STEPS == 100
query_size == 100
n_initial == 10
ScenarioItems == 1000

Min(a, b) == IF a < b THEN a ELSE b

Range(s) == {s[i] : i \in 1..Len(s)}

\* The items 1..n in dataset order.
Ordered(n) == [i \in 1..n |-> i]

\* HParams(): the defaults of the notebook, on the scenario's dataset.
ScenarioHParams ==
    [n_items |-> ScenarioItems, n_initial |-> n_initial,
     query_size |-> query_size, al_steps |-> AL_STEPS]

\* The enumerated configurations: any small non-empty dataset, initial
\* labelling, query size (zero and negative included) and step budget.
SmallHParams ==
    {[n_items |-> n, n_initial |-> i, query_size |-> k, al_steps |-> s] :
        n \in 1..MaxItems, i \in 0..MaxItems, k \in (0 - 1)..MaxQuery, s \in 0..MaxSteps}

HParams == {h \in SmallHParams : h.n_initial <= h.n_items} \cup {ScenarioHParams}

----------------------------------------------------------------------------
(* The library contracts. *)

\* label_randomly(n) draws n pool positions.  Every draw is enumerated for a
\* pool of at most MaxItems items; a larger pool is represented by two draws.
RandomDraws(p, n) ==
    IF p <= MaxItems
    THEN {S \in SUBSET (1..p) : Cardinality(S) = n}
    ELSE {1..n, (p - n + 1)..p}

\* The heuristic ranks the pool: a permutation of the pool positions.  Every
\* permutation is enumerated for a pool of at most MaxItems items; a larger
\* pool is represented by the ascending and the descending order.
Rankings(p) ==
    IF p <= MaxItems
    THEN {r \in [1..p -> 1..p] : \A i, j \in 1..p : r[i] = r[j] => i = j}
    ELSE {[i \in 1..p |-> i], [i \in 1..p |-> p + 1 - i]}

\* The first k entries of a ranking (all of them when it has fewer, none when
\* k is not positive).
FirstK(r, k) == SubSeq(r, 1, Min(k, Len(r)))

\* A mutation of Label: the chosen items are marked labelled and stay in the pool.
LabelKeepsPool(lab, pl, P) ==
    [labelled |-> lab \cup {pl[i] : i \in P}, pool |-> pl]

\* A mutation of Label: the label map is overwritten by the new selection.
LabelOverwrites(lab, pl, P) ==
    LET items == {pl[i] : i \in P}
        all == lab \cup Range(pl)
    IN  [labelled |-> items,
         pool |-> SelectSeq(Ordered(Cardinality(all)), LAMBDA x : x \in all \ items)]

\* label(indices): the indices are pool positions; the items at these positions
\* move from the pool to the labelled set.
Label(lab, pl, P) ==
    LET items == {pl[i] : i \in P}
    IN  [labelled |-> lab \cup items,
         pool |-> SelectSeq(pl, LAMBDA x : x \notin items)]

\* Configuration errors: a query size that is not positive is malformed.
ValidHParams(h) == h.query_size > 0

\* trainer.step given the heuristic's ranking r: label the first k ranked pool
\* items; signal completion when the pool was smaller than k.
TrainerStep(lab, pl, r, k) ==
    LET res == Label(lab, pl, Range(FirstK(r, k)))
    IN  [labelled |-> res.labelled, pool |-> res.pool,
         should_continue |-> (Len(pl) >= k)]

----------------------------------------------------------------------------
(* The driver. *)

Init ==
    /\ hparams \in HParams
    /\ pc = "new"
    /\ al_step = 0 - 1
    /\ labelled = {}
    /\ pool = Ordered(hparams.n_items)
    /\ ndata_to_label = 0
    /\ ranking = <<>>
    /\ should_continue = TRUE
    /\ nFit = 0
    /\ nTest = 0
    /\ nStep = 0
    /\ failure = "none"

\* data_module.active_dataset.label_randomly(10)
LabelRandomly ==
    /\ pc = "new"
    /\ \E P \in RandomDraws(Len(pool), hparams.n_initial) :
         LET res == Label(labelled, pool, P)
         IN  /\ labelled' = res.labelled
             /\ pool' = res.pool
    /\ pc' = "trainer"
    /\ UNCHANGED <<hparams, al_step, ndata_to_label, ranking, should_continue,
                   nFit, nTest, nStep, failure>>

\* A mutation of NewTrainer: ndata_to_label is not passed and keeps the
\* library's default of one item per step.
NewTrainerDefaultQuery ==
    /\ pc = "trainer"
    /\ IF ValidHParams(hparams)
       THEN pc' = "loop" /\ ndata_to_label' = 1
       ELSE pc' = "error" /\ ndata_to_label' = ndata_to_label
    /\ UNCHANGED <<hparams, al_step, labelled, pool, ranking, should_continue,
                   nFit, nTest, nStep, failure>>

\* A mutation of NewTrainer: the configuration error is swallowed.
NewTrainerUnchecked ==
    /\ pc = "trainer"
    /\ pc' = "loop"
    /\ ndata_to_label' = hparams.query_size
    /\ UNCHANGED <<hparams, al_step, labelled, pool, ranking, should_continue,
                   nFit, nTest, nStep, failure>>

\* trainer = BaalTrainer(dataset=..., heuristic=..., ndata_to_label=hparams.query_size, ...)
NewTrainer ==
    /\ pc = "trainer"
    /\ IF ValidHParams(hparams)
       THEN pc' = "loop" /\ ndata_to_label' = hparams.query_size
       ELSE pc' = "error" /\ ndata_to_label' = ndata_to_label
    /\ UNCHANGED <<hparams, al_step, labelled, pool, ranking, should_continue,
                   nFit, nTest, nStep, failure>>

\* for al_step in range(AL_STEPS):
ForNext ==
    /\ pc = "loop"
    /\ IF al_step + 1 < hparams.al_steps
       THEN pc' = "fit" /\ al_step' = al_step + 1
       ELSE pc' = "done" /\ al_step' = al_step
    /\ UNCHANGED <<hparams, labelled, pool, ndata_to_label, ranking,
                   should_continue, nFit, nTest, nStep, failure>>

\* A mutation of Fit: the trainer.test call is left out of the loop body.
FitSkipsTest ==
    /\ pc = "fit"
    /\ pc' = "step"
    /\ nFit' = nFit + 1
    /\ UNCHANGED <<hparams, al_step, labelled, pool, ndata_to_label, ranking,
                   should_continue, nTest, nStep, failure>>

\* trainer.fit(model, datamodule=data_module)
Fit ==
    /\ pc = "fit"
    /\ pc' = "test"
    /\ nFit' = nFit + 1
    /\ UNCHANGED <<hparams, al_step, labelled, pool, ndata_to_label, ranking,
                   should_continue, nTest, nStep, failure>>

\* A mutation of FitFails: the loop body catches the exception and goes on.
FitFailsCaught ==
    /\ pc = "fit"
    /\ pc' = "test"
    /\ nFit' = nFit + 1
    /\ failure' = "fit"
    /\ UNCHANGED <<hparams, al_step, labelled, pool, ndata_to_label, ranking,
                   should_continue, nTest, nStep>>

\* trainer.fit raises: nothing in the loop catches it.
FitFails ==
    /\ pc = "fit"
    /\ pc' = "aborted"
    /\ nFit' = nFit + 1
    /\ failure' = "fit"
    /\ UNCHANGED <<hparams, al_step, labelled, pool, ndata_to_label, ranking,
                   should_continue, nTest, nStep>>

\* trainer.test(model, datamodule=data_module)
Test ==
    /\ pc = "test"
    /\ pc' = "step"
    /\ nTest' = nTest + 1
    /\ UNCHANGED <<hparams, al_step, labelled, pool, ndata_to_label, ranking,
                   should_continue, nFit, nStep, failure>>

\* trainer.test raises
TestFails ==
    /\ pc = "test"
    /\ pc' = "aborted"
    /\ nTest' = nTest + 1
    /\ failure' = "test"
    /\ UNCHANGED <<hparams, al_step, labelled, pool, ndata_to_label, ranking,
                   should_continue, nFit, nStep>>

\* A mutation of Step: the `if not should_continue: break` is missing.
StepNoBreak ==
    /\ pc = "step"
    /\ \E r \in Rankings(Len(pool)) :
         LET res == TrainerStep(labelled, pool, r, ndata_to_label)
         IN  /\ ranking' = r
             /\ labelled' = res.labelled
             /\ pool' = res.pool
             /\ should_continue' = res.should_continue
             /\ pc' = "loop"
    /\ nStep' = nStep + 1
    /\ UNCHANGED <<hparams, al_step, ndata_to_label, nFit, nTest, failure>>

\* should_continue = trainer.step(model, datamodule=data_module)
\* if not should_continue: break
Step ==
    /\ pc = "step"
    /\ \E r \in Rankings(Len(pool)) :
         LET res == TrainerStep(labelled, pool, r, ndata_to_label)
         IN  /\ ranking' = r
             /\ labelled' = res.labelled
             /\ pool' = res.pool
             /\ should_continue' = res.should_continue
             /\ pc' = IF res.should_continue THEN "loop" ELSE "done"
    /\ nStep' = nStep + 1
    /\ UNCHANGED <<hparams, al_step, ndata_to_label, nFit, nTest, failure>>

\* trainer.step raises in the uncertainty computation over the pool, before
\* anything is labelled; an empty pool leaves nothing to compute.
StepFails ==
    /\ pc = "step"
    /\ pool # <<>>
    /\ pc' = "aborted"
    /\ nStep' = nStep + 1
    /\ failure' = "step"
    /\ UNCHANGED <<hparams, al_step, labelled, pool, ndata_to_label, ranking,
                   should_continue, nFit, nTest>>

Next ==
    \/ LabelRandomly
    \/ NewTrainer
    \/ ForNext
    \/ Fit
    \/ FitFails
    \/ Test
    \/ TestFails
    \/ Step
    \/ StepFails

Spec == Init /\ [][Next]_vars

\* The driver is one sequential program: while a statement is left to run, it runs.
FairSpec == Spec /\ WF_vars(Next)

----------------------------------------------------------------------------
(* The properties. *)

Terminal == pc \in {"done", "error", "aborted"}

\* A trainer.step call that ran to completion in this transition.
StepDone == nStep' = nStep + 1 /\ failure' = "none"

\* C1: in every reachable state the labelled set and the pool are disjoint and
\* together hold every item of the dataset, each item exactly once.
C1_PartitionExhaustiveDisjoint ==
    /\ labelled \cap Range(pool) = {}
    /\ labelled \cup Range(pool) = 1..hparams.n_items
    /\ Cardinality(Range(pool)) = Len(pool)

\* C1 witness: a completed step has left items on both sides.
C1_Witness ==
    /\ nStep >= 1
    /\ failure = "none"
    /\ hparams.n_initial > 0
    /\ Cardinality(labelled) > hparams.n_initial
    /\ pool # <<>>

\* C2 as stated: every completed step labels min(k, pool) items, shrinks the
\* pool by as many, and leaves the labelled set strictly larger.
C2_AsStated ==
    [][StepDone =>
        LET m == Min(hparams.query_size, Len(pool))
        IN  /\ Cardinality(labelled') = Cardinality(labelled) + m
            /\ Len(pool') = Len(pool) - m
            /\ Cardinality(labelled') > Cardinality(labelled)]_vars

\* C2 amended: every completed step labels min(k, pool) items and shrinks the
\* pool by as many; the labelled set is strictly larger exactly when the pool
\* was not empty before the step, and is unchanged when it was empty.
C2_StepSizes ==
    [][StepDone =>
        LET m == Min(hparams.query_size, Len(pool))
        IN  /\ Cardinality(labelled') = Cardinality(labelled) + m
            /\ Len(pool') = Len(pool) - m
            /\ (pool # <<>> => Cardinality(labelled') > Cardinality(labelled))
            /\ (pool = <<>> => labelled' = labelled)]_vars

\* C2 witness: a first step has labelled a full query of k items.
C2_Witness ==
    /\ nStep = 1
    /\ failure = "none"
    /\ Cardinality(labelled) = hparams.n_initial + hparams.query_size
    /\ pool # <<>>

\* C3: the run always terminates; the loop makes at most N steps and is done
\* only when the counter reached N or a step signalled completion; a step that
\* finds the pool smaller than k labels all that is left, returns
\* should_continue = false and ends the loop, a step that finds at least k
\* items does not; nothing is executed after the loop is done.
C3_Termination ==
    /\ <>Terminal
    /\ [](nStep <= hparams.al_steps)
    /\ [](pc = "done" => (nStep = hparams.al_steps \/ ~should_continue))
    /\ [][StepDone /\ Len(pool) < hparams.query_size
            => pool' = <<>> /\ ~should_continue' /\ pc' = "done"]_vars
    /\ [][StepDone /\ Len(pool) >= hparams.query_size
            => should_continue' /\ pc' = "loop"]_vars
    /\ [][pc = "done" => UNCHANGED <<nFit, nTest, nStep, labelled, pool>>]_vars

\* C3 witness: the loop ended before its budget, in a step that found fewer
\* than k items and labelled them.
C3_Witness ==
    /\ pc = "done"
    /\ ~should_continue
    /\ nStep >= 2
    /\ nStep < hparams.al_steps
    /\ pool = <<>>
    /\ Len(ranking) > 0

\* C4: with 1000 items, k = 100, N = 100 and 10 items labelled at random, the
\* first step leaves 110 labelled and 890 in the pool, and the loop is done
\* after exactly 10 train/evaluate/select steps with the pool empty.
C4_Scenario ==
    hparams = ScenarioHParams =>
        /\ nStep <= 10
        /\ (nStep = 1 /\ failure = "none"
                => Cardinality(labelled) = 110 /\ Len(pool) = 890)
        /\ (nStep = 10 /\ failure = "none" => pool = <<>> /\ pc = "done")
        /\ (pc = "done"
                => /\ nFit = 10 /\ nTest = 10 /\ nStep = 10
                   /\ al_step = 9
                   /\ pool = <<>>
                   /\ Cardinality(labelled) = 1000)

\* C4 witness: the scenario's loop is done.
C4_Witness ==
    /\ hparams = ScenarioHParams
    /\ pc = "done"
    /\ nStep = 10

\* C5: the items a completed step moves from the pool to the labelled set are
\* exactly the pool items at the first k positions of the ranking the heuristic
\* returned for that pool (all of them when it ranks fewer than k); they were
\* in the pool, and nothing else leaves it.
C5_SelectsFirstK ==
    [][StepDone =>
        LET sel == {pool[ranking'[i]] :
                        i \in 1..Min(hparams.query_size, Len(ranking'))}
        IN  /\ Len(ranking') = Len(pool)
            /\ Range(ranking') = 1..Len(pool)
            /\ sel \subseteq Range(pool)
            /\ labelled' \ labelled = sel
            /\ labelled' = labelled \cup sel
            /\ Range(pool') = Range(pool) \ sel]_vars

\* C5 witness: a completed step chose a proper prefix of a ranking that does
\* not follow the dataset order.
C5_Witness ==
    /\ nStep >= 1
    /\ failure = "none"
    /\ hparams.query_size < Len(ranking)
    /\ ranking[1] # 1
    /\ Cardinality(labelled) = hparams.n_initial + nStep * hparams.query_size

\* C6: an item, once labelled, stays labelled: no operation takes an item out
\* of the labelled set or puts one into the pool.
C6_LabellingMonotonic ==
    [][labelled \subseteq labelled' /\ Range(pool') \subseteq Range(pool)]_vars

\* C6 witness: two steps have completed after a non-empty initial labelling.
C6_Witness ==
    /\ nStep >= 2
    /\ failure = "none"
    /\ hparams.n_initial > 0
    /\ Cardinality(labelled) > hparams.n_initial

CallOrder ==
    /\ nStep <= nTest /\ nTest <= nFit /\ nFit <= nStep + 1
    /\ (pc = "fit" => nFit = al_step /\ nTest = al_step /\ nStep = al_step)
    /\ (pc = "test" => nFit = al_step + 1 /\ nTest = al_step /\ nStep = al_step)
    /\ (pc = "step" => nFit = al_step + 1 /\ nTest = al_step + 1 /\ nStep = al_step)

\* C8: each iteration trains, then evaluates, then selects and labels, and the
\* next iteration trains only after that labelling; fit and test leave the
\* labelled set and the pool as they were, and inside the loop only
\* trainer.step changes them.
C8_OrderAndFrame ==
    /\ []CallOrder
    /\ [][nFit' # nFit \/ nTest' # nTest
            => labelled' = labelled /\ pool' = pool]_vars
    /\ [][labelled' # labelled \/ pool' # pool
            => pc = "new" \/ (pc = "step" /\ nStep' = nStep + 1)]_vars

\* C8 witness: the second iteration is about to train on a labelled set the
\* first iteration's step has grown.
C8_Witness ==
    /\ pc = "fit"
    /\ al_step = 1
    /\ nStep = 1
    /\ Cardinality(labelled) > hparams.n_initial

\* C9: a failure of fit, test or the step's uncertainty computation aborts the
\* run: the partition is as it was before the failed operation, and no
\* operation is executed and nothing is labelled afterwards.
C9_FailureAborts ==
    /\ [](failure # "none" => pc = "aborted")
    /\ [][failure = "none" /\ failure' # "none"
            => labelled' = labelled /\ pool' = pool /\ pc' = "aborted"]_vars
    /\ [][failure # "none"
            => UNCHANGED <<nFit, nTest, nStep, labelled, pool, failure>>]_vars

\* C9 witness: the second iteration's step failed with items still in the pool.
C9_Witness ==
    /\ failure = "step"
    /\ pc = "aborted"
    /\ nStep = 2
    /\ pool # <<>>

\* C10: a step that reaches selection with an empty pool has trained and
\* evaluated once, labels nothing, leaves the partition unchanged, returns
\* should_continue = false without an error, and the loop is done; nothing is
\* executed afterwards.
C10_EmptyPoolEndsNormally ==
    /\ [][pc = "step" /\ pool = <<>> /\ pc' # pc
            => /\ nFit = nStep + 1 /\ nTest = nStep + 1
               /\ nStep' = nStep + 1
               /\ labelled' = labelled /\ pool' = pool
               /\ ~should_continue'
               /\ failure' = "none"
               /\ pc' = "done"]_vars
    /\ [][pc = "done" => UNCHANGED <<nFit, nTest, nStep, labelled, pool, pc>>]_vars

\* C10 witness: everything was labelled before the loop began, and the first
\* step ended the loop.
C10_Witness ==
    /\ pc = "done"
    /\ hparams.n_items > 0
    /\ hparams.n_initial = hparams.n_items
    /\ nFit = 1 /\ nTest = 1 /\ nStep = 1
    /\ ~should_continue
    /\ failure = "none"

====
